---- MODULE Spec2Model ----
(***************************************************************************)
(* Model of the video ad playback and tracking engine of                   *)
(* src/js/buzzer-video.js: BuzzerVideoPlayer used on its own ("standard"), *)
(* wrapped by BuzzerRewardedAd ("rewarded") and by BuzzerOutstream         *)
(* ("outstream"), BuzzerInterstitial, and the VAST parser (parseVast,      *)
(* parseSkipOffset) that turns a fetched document into the descriptor.     *)
(*                                                                         *)
(* The objects' fields are gathered in one record, the world, so that the  *)
(* methods of the source compose the way they call each other (onComplete  *)
(* calls the caller's callback, which calls grantReward and close, which   *)
(* calls destroy).  Each method is an operator from world to world; each   *)
(* action applies the handler of one host event or one API call.           *)
(*                                                                         *)
(* An optional value of the source (null, undefined, NaN) is the empty     *)
(* sequence, a present value v is <<v>>.                                   *)
(***************************************************************************)
EXTENDS Integers, Sequences, FiniteSets, TLC

VARIABLES mode, options, vastData, videoElement, skipButton, currentTime,
          trackingFired, container, inflight, loads, thrown, orphaned,
          overlay, rewardTimers, popups, log, interstitial,
          outstream, vastXml, reached

vars == <<mode, options, vastData, videoElement, skipButton, currentTime,
          trackingFired, container, inflight, loads, thrown, orphaned,
          overlay, rewardTimers, popups, log, interstitial,
          outstream, vastXml, reached>>

\* ------------------------------------------------------------------ bounds
\* duration, in seconds, that the host reports once metadata is known
MaxDur == 4
\* how many times an unguarded, repeatable effect (complete, skip, click,
\* close) is followed in one behaviour
MaxRepeat == 2
\* the skip offset carried by the skippable documents
SkipAt == 2
\* the largest closeAfter a caller passes to an interstitial, besides the
\* default
MaxCloseAfter == 7
\* how many visibility entries the observer delivers in one behaviour
MaxVisibility == 3
\* how many times the caller calls load() on one player where reloads are
\* followed
MaxLoads == 2
\* how many times the caller calls show() on one interstitial where repeated
\* shows are followed
MaxShows == 2
\* the longest skipoffset attribute made of arbitrary characters
MaxLen == 5
\* the largest hours, minutes or seconds field of a timestamp, and the
\* largest bare integer, given as a skipoffset attribute
MaxField == 12
\* the largest number of Tracking elements in a document
MaxTrackings == 3

\* ------------------------------------------------------------- data model
Null == <<>>
Some(v) == <<v>>
Val(o) == o[1]

Modes == {"standard", "rewarded", "interstitial", "outstream"}

EventKinds == {"start", "firstQuartile", "midpoint", "thirdQuartile",
               "complete", "skip", "click"}

\* the tracking events guarded by trackingFired
OnceKinds == {"start", "firstQuartile", "midpoint", "thirdQuartile"}

\* ---------------------------------------------------------------- strings
\* A string is a sequence of characters; a character is a string of length 1.
Digits == <<"0", "1", "2", "3", "4", "5", "6", "7", "8", "9">>

IsDigit(c) == \E i \in 1..Len(Digits) : Digits[i] = c

DigitVal(c) == (CHOOSE i \in 1..Len(Digits) : Digits[i] = c) - 1

\* a number of the source: NaN, or an integer n
NaN == <<>>
Num(n) == <<n>>

\* x * k and x + y, NaN when an operand is NaN
Times(x, k) == IF x = NaN THEN NaN ELSE Num(Val(x) * k)
Plus(x, y) == IF x = NaN \/ y = NaN THEN NaN ELSE Num(Val(x) + Val(y))

\* x || d for a number x: NaN and 0 are falsy
OrElse(x, d) == IF x = NaN \/ x = Num(0) THEN Num(d) ELSE x

RECURSIVE LeadingDigits(_)
LeadingDigits(s) ==
  IF s = <<>> \/ ~IsDigit(Head(s)) THEN <<>>
  ELSE <<Head(s)>> \o LeadingDigits(Tail(s))

RECURSIVE Decimal(_)
Decimal(ds) ==
  IF ds = <<>> THEN 0
  ELSE Decimal(SubSeq(ds, 1, Len(ds) - 1)) * 10 + DigitVal(ds[Len(ds)])

\* parseInt(s) for strings without white space, sign or radix prefix: the
\* value of the longest prefix of digits, NaN when s does not start with one
parseInt(s) ==
  IF LeadingDigits(s) = <<>> THEN NaN ELSE Num(Decimal(LeadingDigits(s)))

\* s.split(sep) for a separator of one character
RECURSIVE split(_, _)
split(s, sep) ==
  IF \A i \in 1..Len(s) : s[i] /= sep THEN <<s>>
  ELSE LET i == CHOOSE k \in 1..Len(s) :
                  s[k] = sep /\ \A l \in 1..(k - 1) : s[l] /= sep
       IN  <<SubSeq(s, 1, i - 1)>> \o split(SubSeq(s, i + 1, Len(s)), sep)

\* ---------------------------------------------------------------- parsing
\* parseSkipOffset with the default applied to the timestamp form as well
parseSkipOffset_DefaultAll(offset) ==
  LET parts == split(offset, ":")
  IN  IF Len(parts) = 3
        THEN OrElse(Plus(Plus(Times(parseInt(parts[1]), 3600),
                              Times(parseInt(parts[2]), 60)),
                         parseInt(parts[3])), 5)
        ELSE OrElse(parseInt(offset), 5)

parseSkipOffset(offset) ==
  LET parts == split(offset, ":")
  IN  IF Len(parts) = 3
        THEN Plus(Plus(Times(parseInt(parts[1]), 3600),
                       Times(parseInt(parts[2]), 60)),
                  parseInt(parts[3]))
        ELSE OrElse(parseInt(offset), 5)

\* an object without keys
EmptyMap == [k \in {} |-> ""]

\* m[k] = v on an object
Assign(m, k, v) == [x \in DOMAIN m \cup {k} |-> IF x = k THEN v ELSE m[x]]

\* the fold over the Tracking elements that keeps the first URL of a kind
RECURSIVE foldTracking_FirstWins(_, _)
foldTracking_FirstWins(m, ts) ==
  IF ts = <<>> THEN m
  ELSE foldTracking_FirstWins(
         IF Head(ts)[1] \in DOMAIN m THEN m
         ELSE Assign(m, Head(ts)[1], Head(ts)[2]), Tail(ts))

\* querySelectorAll('Tracking').forEach: trackingEvents[event] = url, over
\* the elements <<event, url>> in document order
RECURSIVE foldTracking(_, _)
foldTracking(m, ts) ==
  IF ts = <<>> THEN m
  ELSE foldTracking(Assign(m, Head(ts)[1], Head(ts)[2]), Tail(ts))

\* parseVast with the default applied to a missing skipoffset attribute
parseVast_DefaultAbsent(doc) ==
  [mediaFile |-> doc.mediaFile,
   clickThrough |-> doc.clickThrough,
   clickTracking |-> doc.clickTracking,
   impressionUrl |-> doc.impression,
   skipOffset |-> IF doc.skipoffset /= Null /\ Val(doc.skipoffset) /= <<>>
                    THEN Some(parseSkipOffset(Val(doc.skipoffset)))
                    ELSE Some(Num(5)),
   trackingEvents |-> foldTracking(EmptyMap, doc.trackings)]

\* What parseVast returns for a document.  A document is modelled by what
\* parseVast reads from it: the presence of the MediaFile, ClickThrough,
\* ClickTracking and Impression URLs, the skipoffset attribute of Linear
\* (Null when the attribute or the element is missing) and the Tracking
\* elements in document order.  A skip offset is null (Null) or a number.
parseVast(doc) ==
  [mediaFile |-> doc.mediaFile,
   clickThrough |-> doc.clickThrough,
   clickTracking |-> doc.clickTracking,
   impressionUrl |-> doc.impression,
   skipOffset |-> IF doc.skipoffset /= Null /\ Val(doc.skipoffset) /= <<>>
                    THEN Some(parseSkipOffset(Val(doc.skipoffset)))
                    ELSE Null,
   trackingEvents |-> foldTracking(EmptyMap, doc.trackings)]

\* n in 0..99 written with two digits
TwoDigits(n) == <<Digits[(n \div 10) + 1], Digits[(n % 10) + 1]>>

\* "HH:MM:SS"
Timestamp(h, m, sec) ==
  TwoDigits(h) \o <<":">> \o TwoDigits(m) \o <<":">> \o TwoDigits(sec)

\* one Tracking element per event kind, its URL named after the kind
EventOrder == <<"start", "firstQuartile", "midpoint", "thirdQuartile",
                "complete", "skip", "click">>
AllTrackings == [i \in 1..Len(EventOrder) |-> <<EventOrder[i], EventOrder[i]>>]

\* the documents the fetch delivers to a player that is played
Documents ==
  { doc \in [mediaFile : BOOLEAN,
             skipoffset : {Null, Some(Timestamp(0, 0, SkipAt))},
             clickThrough : BOOLEAN, clickTracking : BOOLEAN,
             impression : BOOLEAN, trackings : {AllTrackings, <<>>}] :
      /\ doc.clickTracking = doc.clickThrough
      /\ doc.impression = doc.clickThrough
      /\ ~doc.mediaFile => (doc.skipoffset = Null /\ ~doc.clickThrough) }

Descriptors == { parseVast(doc) : doc \in Documents }

\* the characters of the skipoffset attributes that are not timestamps
Alphabet == {"0", "1", "2", ":", "a", "%"}

Strings(n) == UNION { [1..l -> Alphabet] : l \in 0..n }

\* n written in decimal
RECURSIVE IntString(_)
IntString(n) ==
  IF n < 10 THEN <<Digits[n + 1]>>
  ELSE IntString(n \div 10) \o <<Digits[(n % 10) + 1]>>

\* the skipoffset attributes given to the parser
SkipOffsetAttributes ==
  Strings(MaxLen)
    \cup { Timestamp(h, m, sec) : h, m, sec \in 0..MaxField }
    \cup { IntString(n) : n \in 0..MaxField }

\* the Tracking elements given to the parser
TrackingLists ==
  UNION { [1..l -> {"start", "complete"} \X {"", "u1", "u2"}] :
            l \in 0..MaxTrackings }

\* a document with media and nothing else
PlainDocument ==
  [mediaFile |-> TRUE, skipoffset |-> Null, clickThrough |-> FALSE,
   clickTracking |-> FALSE, impression |-> FALSE, trackings |-> <<>>]

\* the documents that exercise the parser: every skipoffset attribute, and
\* every list of Tracking elements
ParseDocuments ==
  { [PlainDocument EXCEPT !.skipoffset = Some(a)] : a \in SkipOffsetAttributes }
    \cup { [PlainDocument EXCEPT !.trackings = ts] : ts \in TrackingLists }

\* the world: every field of the player, of the rewarded ad and of the host
World ==
  [mode |-> mode, options |-> options, vastData |-> vastData,
   videoElement |-> videoElement, skipButton |-> skipButton,
   currentTime |-> currentTime, trackingFired |-> trackingFired,
   container |-> container, inflight |-> inflight, loads |-> loads,
   thrown |-> thrown, orphaned |-> orphaned, overlay |-> overlay, rewardTimers |-> rewardTimers,
   popups |-> popups, log |-> log, interstitial |-> interstitial,
   outstream |-> outstream, vastXml |-> vastXml, reached |-> reached]

SetWorld(w) ==
  /\ mode' = w.mode
  /\ options' = w.options
  /\ vastData' = w.vastData
  /\ videoElement' = w.videoElement
  /\ skipButton' = w.skipButton
  /\ currentTime' = w.currentTime
  /\ trackingFired' = w.trackingFired
  /\ container' = w.container
  /\ inflight' = w.inflight
  /\ loads' = w.loads
  /\ thrown' = w.thrown
  /\ orphaned' = w.orphaned
  /\ overlay' = w.overlay
  /\ rewardTimers' = w.rewardTimers
  /\ popups' = w.popups
  /\ log' = w.log
  /\ interstitial' = w.interstitial
  /\ outstream' = w.outstream
  /\ vastXml' = w.vastXml
  /\ reached' = w.reached

\* the observable effects, in the order they happen
Emit(w, e) == [w EXCEPT !.log = Append(@, e)]

Count(s, e) == Cardinality({i \in 1..Len(s) : s[i] = e})

Fired(kind) == Count(log, <<"fire", kind>>)
Pixels(url) == Count(log, <<"pixel", url>>)
Calls(cb) == Count(log, <<"call", cb>>)

\* the clicks of the user on the video element
Clicks == Count(log, <<"event", "click">>)

\* the effects the source repeats without a guard, counted together
Repeats == Fired("complete") + Fired("skip") + Clicks

\* --------------------------------------------------------- BuzzerVideoPlayer
firePixel(w, url) == Emit(w, <<"pixel", url>>)

\* requires w.vastData /= Null (the source dereferences it)
fireTracking(w, event) ==
  LET vd == Val(w.vastData)
      w1 == Emit(w, <<"fire", event>>)
      te == vd.trackingEvents
      w2 == IF event \in DOMAIN te /\ te[event] /= ""
              THEN firePixel(w1, te[event]) ELSE w1
  IN  IF event = "click" /\ vd.clickTracking
        THEN firePixel(w2, "clickTracking")
        ELSE w2

\* destroy that clears the container but leaves the element's media in place
destroy_NoRelease(w) ==
  [w EXCEPT !.container = "empty",
            !.orphaned = w.inflight,
            !.skipButton = IF @ = Null THEN Null
                           ELSE Some([Val(@) EXCEPT !.attached = FALSE])]

destroy(w) ==
  LET w1 == IF w.videoElement /= Null
              THEN [w EXCEPT !.videoElement =
                      Some([src |-> FALSE,
                            currentTime |-> 0, duration |-> Null,
                            ended |-> FALSE, error |-> FALSE])]
              ELSE w
  IN  [w1 EXCEPT !.container = "empty",
                 !.orphaned = w.inflight,
                 !.skipButton = IF @ = Null THEN Null
                                ELSE Some([Val(@) EXCEPT !.attached = FALSE])]

\* ---------------------------------------------------------- BuzzerRewardedAd
grantReward(w) ==
  [Emit(w, <<"ui", "rewardPopup">>) EXCEPT !.popups = @ + 1,
                                           !.rewardTimers = @ + 1]

close(w) ==
  LET w1 == destroy(w)
      w2 == IF w1.overlay = "shown"
              THEN Emit([w1 EXCEPT !.overlay = "removed"],
                        <<"ui", "overlayRemoved">>)
              ELSE w1
  IN  Emit(w2, <<"call", "rewarded.onClose">>)

\* onComplete callbacks where the outstream ad tears its player down
optOnComplete_Destroy(w) ==
  IF w.mode = "rewarded" THEN close(grantReward(w))
  ELSE IF w.mode = "outstream"
    THEN destroy([w EXCEPT !.outstream.collapsed = TRUE])
  ELSE Emit(w, <<"call", "onComplete">>)

\* the callbacks handed to the player's constructor
optOnComplete(w) ==
  IF w.mode = "rewarded" THEN close(grantReward(w))
  ELSE IF w.mode = "outstream" THEN [w EXCEPT !.outstream.collapsed = TRUE]
  ELSE Emit(w, <<"call", "onComplete">>)

optOnError(w) ==
  IF w.mode = "rewarded" THEN close(Emit(w, <<"call", "rewarded.onError">>))
  ELSE IF w.mode = "outstream" THEN w
  ELSE Emit(w, <<"call", "onError">>)

optOnSkip(w) ==
  IF w.mode \in {"rewarded", "outstream"} THEN w
  ELSE Emit(w, <<"call", "onSkip">>)

optOnReward(w) ==
  IF w.mode \in {"rewarded", "outstream"} THEN w
  ELSE Emit(w, <<"call", "player.onReward">>)

\* ------------------------------------------------- BuzzerVideoPlayer, cont.
\* Number(null) is 0 in the subtraction of updateSkipButton
NumOf(o) == IF o = Null THEN Num(0) ELSE Val(o)

\* the text of the skip control: "Skip in Ns", or "Skip Ad" and an arrow
SkipIn(n) == <<n>>
SkipAd == <<>>

\* updateSkipButton that enables the control and never disables it again
updateSkipButton_Latch(w) ==
  IF w.skipButton = Null THEN w
  ELSE LET remaining == Plus(NumOf(Val(w.vastData).skipOffset),
                             Num(0 - w.currentTime))
       IN  IF remaining /= NaN /\ Val(remaining) > 0
                /\ Val(w.skipButton).disabled
             THEN [w EXCEPT !.skipButton =
                     Some([Val(@) EXCEPT
                             !.textContent = SkipIn(Val(remaining))])]
             ELSE [w EXCEPT !.skipButton =
                     Some([Val(@) EXCEPT !.disabled = FALSE,
                                         !.textContent = SkipAd])]

\* remaining is Math.ceil of a difference of integers, or NaN
updateSkipButton(w) ==
  IF w.skipButton = Null THEN w
  ELSE LET remaining == Plus(NumOf(Val(w.vastData).skipOffset),
                             Num(0 - w.currentTime))
       IN  IF remaining /= NaN /\ Val(remaining) > 0
             THEN [w EXCEPT !.skipButton =
                     Some([Val(@) EXCEPT
                             !.disabled = TRUE,
                             !.textContent = SkipIn(Val(remaining))])]
             ELSE [w EXCEPT !.skipButton =
                     Some([Val(@) EXCEPT !.disabled = FALSE,
                                         !.textContent = SkipAd])]

\* the new button is enabled; its text is written by updateSkipButton
\* before the button is appended
createSkipButton(w) ==
  updateSkipButton(
    [w EXCEPT !.skipButton =
       Some([attached |-> TRUE, disabled |-> FALSE, textContent |-> SkipAd])])

render(w) ==
  LET vd == Val(w.vastData)
      w2 == [w EXCEPT !.container = "player",
                      !.skipButton = IF @ = Null THEN Null
                                     ELSE Some([Val(@) EXCEPT !.attached = FALSE]),
                      !.videoElement =
                         Some([src |-> TRUE,
                               currentTime |-> 0, duration |-> Null,
                            ended |-> FALSE, error |-> FALSE])]
      w3 == IF vd.skipOffset /= Null THEN createSkipButton(w2) ELSE w2
  IN  IF vd.impressionUrl THEN firePixel(w3, "impression") ELSE w3

\* onStart without the trackingFired guard
onStart_Unguarded(w) ==
  [fireTracking(w, "start") EXCEPT !.trackingFired = @ \cup {"start"}]

onStart(w) ==
  IF "start" \notin w.trackingFired
    THEN [fireTracking(w, "start") EXCEPT !.trackingFired = @ \cup {"start"}]
    ELSE w

\* the comparison with the thresholds taken from the end of the media
PercentAtLeast_FromEnd(t, duration, p) ==
  IF duration = Null THEN FALSE
  ELSE IF Val(duration) = 0 THEN t > 0
  ELSE t * 100 >= (100 - p) * Val(duration)

\* percent >= p, for percent = (currentTime / duration) * 100; a NaN percent
\* (duration NaN, or 0/0) compares false, x/0 with x > 0 is Infinity
PercentAtLeast(t, duration, p) ==
  IF duration = Null THEN FALSE
  ELSE IF Val(duration) = 0 THEN t > 0
  ELSE t * 100 >= p * Val(duration)

quartile(w, percentReached, kind) ==
  IF percentReached /\ kind \notin w.trackingFired
    THEN [fireTracking(w, kind) EXCEPT !.trackingFired = @ \cup {kind}]
    ELSE w

\* onTimeUpdate with the three tests chained by else: one event per update
onTimeUpdate_ElseIf(w) ==
  LET ve == Val(w.videoElement)
      w1 == updateSkipButton([w EXCEPT !.currentTime = ve.currentTime])
      t  == ve.currentTime
      d  == ve.duration
  IN  IF PercentAtLeast(t, d, 25) /\ "firstQuartile" \notin w1.trackingFired
        THEN quartile(w1, TRUE, "firstQuartile")
      ELSE IF PercentAtLeast(t, d, 50) /\ "midpoint" \notin w1.trackingFired
        THEN quartile(w1, TRUE, "midpoint")
      ELSE quartile(w1, PercentAtLeast(t, d, 75), "thirdQuartile")

onTimeUpdate(w) ==
  LET ve == Val(w.videoElement)
      w1 == updateSkipButton([w EXCEPT !.currentTime = ve.currentTime])
      t  == ve.currentTime
      d  == ve.duration
      w2 == quartile(w1, PercentAtLeast(t, d, 25), "firstQuartile")
      w3 == quartile(w2, PercentAtLeast(t, d, 50), "midpoint")
  IN  quartile(w3, PercentAtLeast(t, d, 75), "thirdQuartile")

onComplete(w) == optOnReward(optOnComplete(fireTracking(w, "complete")))

\* fireTracking dereferences vastData: with no descriptor the call throws
\* before anything else happens
skip(w) ==
  IF w.vastData = Null THEN [w EXCEPT !.thrown = TRUE]
  ELSE destroy(optOnSkip(fireTracking(w, "skip")))

\* the synchronous part of load(): without a VAST URL it logs to the console
\* and returns, otherwise the fetch is started and load() suspends
load(w) ==
  IF ~w.options.vastUrl
    THEN Emit(w, <<"console", "No VAST URL provided">>)
    ELSE [w EXCEPT !.inflight = @ + 1]

\* load() resumed, without the test for a media file
loadResumed_NoMediaCheck(w, doc) ==
  render([w EXCEPT !.inflight = @ - 1, !.vastXml = Some(doc),
                   !.vastData = Some(parseVast(doc)),
                   !.orphaned = IF @ > 0 THEN @ - 1 ELSE 0])

\* load() resumed with the text of the response, the document doc: vastXml
\* is the text of the last response, vastData what parseVast made of it
loadResumed(w, doc) ==
  LET w1 == [w EXCEPT !.inflight = @ - 1, !.vastXml = Some(doc),
                      !.vastData = Some(parseVast(doc)),
                      !.orphaned = IF @ > 0 THEN @ - 1 ELSE 0]
  IN  IF ~Val(w1.vastData).mediaFile THEN optOnError(w1) ELSE render(w1)

\* load() with a catch block that does not report the error
loadRejected_Swallow(w) ==
  [w EXCEPT !.inflight = @ - 1, !.orphaned = IF @ > 0 THEN @ - 1 ELSE 0]

\* load() resumed by a rejected fetch
loadRejected(w) ==
  optOnError([w EXCEPT !.inflight = @ - 1,
                       !.orphaned = IF @ > 0 THEN @ - 1 ELSE 0])

\* the 'click' listener of the video element
onClick(w) ==
  IF Val(w.vastData).clickThrough THEN fireTracking(w, "click") ELSE w

\* BuzzerRewardedAd.show(): overlay, player, player.load()
show(w) == load([w EXCEPT !.overlay = "shown"])

\* the setTimeout callback of grantReward
rewardTimeout(w) ==
  Emit([w EXCEPT !.popups = @ - 1, !.rewardTimers = @ - 1],
       <<"call", "rewarded.onReward">>)

\* --------------------------------------------------------- BuzzerInterstitial
\* closeAfter: options.closeAfter || 5
DefaultCloseAfter == 5

CloseAfterValues == (0..MaxCloseAfter) \cup {DefaultCloseAfter}

\* The instance before show().  overlay, closeButton and timer are the fields
\* of the instance: null, or the number of the show() call that created the
\* element or interval they refer to.  views holds, per show() call, what
\* that call created: its overlay (inDocument), its interval (running), the
\* countdown of its closure (remaining), its countdown display and the
\* visibility of its close button; ticks counts the runs of its interval
\* callback.
NewInterstitial(n) ==
  [closeAfter |-> n, overlay |-> Null, closeButton |-> Null, timer |-> Null,
   views |-> <<>>]

interstitialShow(w) ==
  LET it == w.interstitial
      i  == Len(it.views) + 1
      v  == [inDocument |-> TRUE, running |-> TRUE,
             remaining |-> it.closeAfter, displayVisible |-> TRUE,
             displayText |-> it.closeAfter, closeVisible |-> FALSE,
             ticks |-> 0]
  IN  [w EXCEPT !.interstitial =
         [it EXCEPT !.overlay = Some(i), !.closeButton = Some(i),
                    !.timer = Some(i), !.views = Append(@, v)]]

\* the interval callback with the test remaining < 0
interstitialTick_Late(w, i) ==
  LET it == w.interstitial
      r  == it.views[i].remaining - 1
      v1 == [it.views EXCEPT ![i].remaining = r, ![i].ticks = @ + 1]
  IN  IF r < 0
        THEN LET v2 == [v1 EXCEPT ![Val(it.timer)].running = FALSE]
                 v3 == [v2 EXCEPT ![i].displayVisible = FALSE]
             IN  [w EXCEPT !.interstitial.views =
                    [v3 EXCEPT ![Val(it.closeButton)].closeVisible = TRUE]]
        ELSE [w EXCEPT !.interstitial.views =
                [v1 EXCEPT ![i].displayText = r]]

\* the setInterval callback of the i-th show(); this.timer and
\* this.closeButton are read when it runs
interstitialTick(w, i) ==
  LET it == w.interstitial
      r  == it.views[i].remaining - 1
      v1 == [it.views EXCEPT ![i].remaining = r, ![i].ticks = @ + 1]
  IN  IF r <= 0
        THEN LET v2 == [v1 EXCEPT ![Val(it.timer)].running = FALSE]
                 v3 == [v2 EXCEPT ![i].displayVisible = FALSE]
             IN  [w EXCEPT !.interstitial.views =
                    [v3 EXCEPT ![Val(it.closeButton)].closeVisible = TRUE]]
        ELSE [w EXCEPT !.interstitial.views =
                [v1 EXCEPT ![i].displayText = r]]

interstitialClose(w) ==
  LET it == w.interstitial
      v1 == IF it.timer /= Null
              THEN [it.views EXCEPT ![Val(it.timer)].running = FALSE]
              ELSE it.views
      w1 == IF it.overlay /= Null
              THEN Emit([w EXCEPT !.interstitial =
                           [it EXCEPT !.overlay = Null,
                              !.views = [v1 EXCEPT
                                 ![Val(it.overlay)].inDocument = FALSE]]],
                        <<"ui", "interstitial.overlayRemoved">>)
              ELSE [w EXCEPT !.interstitial.views = v1]
  IN  Emit(w1, <<"call", "interstitial.onClose">>)

\* ------------------------------------------------------------ BuzzerOutstream
\* The instance after construction.  observer: init() has created the
\* observer; players counts the players load() has created; collapsed: the
\* container's height has been set to 0; visibility is the sequence of
\* isIntersecting values the observer has delivered so far.
NewOutstream ==
  [observer |-> FALSE, hasPlayed |-> FALSE, players |-> 0,
   collapsed |-> FALSE, visibility |-> <<>>]

\* BuzzerOutstream.load() up to its await: a new player, then player.load()
outstreamLoad(w) ==
  load([w EXCEPT !.outstream.players = @ + 1, !.loads = @ + 1])

\* the body of entries.forEach without the hasPlayed test
outstreamEntry_Unguarded(w, isIntersecting) ==
  LET w1 == [w EXCEPT !.outstream.visibility = Append(@, isIntersecting)]
  IN  IF isIntersecting
        THEN [outstreamLoad(w1) EXCEPT !.outstream.hasPlayed = TRUE]
        ELSE w1

\* the body of entries.forEach in the observer callback
outstreamEntry(w, isIntersecting) ==
  LET w1 == [w EXCEPT !.outstream.visibility = Append(@, isIntersecting)]
  IN  IF isIntersecting /\ ~w1.outstream.hasPlayed
        THEN [outstreamLoad(w1) EXCEPT !.outstream.hasPlayed = TRUE]
        ELSE w1

\* the observer callback: entries.forEach
RECURSIVE outstreamObserve(_, _)
outstreamObserve(w, entries) ==
  IF entries = <<>> THEN w
  ELSE outstreamObserve(outstreamEntry(w, Head(entries)), Tail(entries))

\* ------------------------------------------------------------ the host video
QuartileOrder == <<"firstQuartile", "midpoint", "thirdQuartile">>
QuartileKinds == {"firstQuartile", "midpoint", "thirdQuartile"}
Threshold(kind) ==
  CASE kind = "firstQuartile" -> 25
    [] kind = "midpoint" -> 50
    [] kind = "thirdQuartile" -> 75

\* the quartiles whose threshold is reached by position t of duration d
ReachedAt(t, d) ==
  { k \in QuartileKinds : d /= NaN /\ Val(d) > 0
                            /\ t * 100 >= Threshold(k) * Val(d) }

\* the element reports position t of duration d to a 'timeupdate' listener;
\* reached keeps the quartiles whose threshold some report has reached
Report(w, t, d) ==
  [w EXCEPT !.videoElement =
              Some([Val(@) EXCEPT !.currentTime = t, !.duration = d,
                                  !.ended = @ /\ Some(t) = d]),
            !.reached = @ \cup ReachedAt(t, d)]

Live(w) == w.videoElement /= Null /\ Val(w.videoElement).src

\* the element has media and the host has reported no media error
Playable(w) == Live(w) /\ ~Val(w.videoElement).error

\* the positions the host can report for the element
Positions(ve) == IF ve.src /\ ve.duration /= Null
                   THEN 0..Val(ve.duration) ELSE {0}

\* ------------------------------------------------------------------ actions
\* this.options of a player constructed with the argument arg.  arg.skipOffset
\* is Null when the caller's options have no skipOffset key, else Some of the
\* value given (null, or a number); the constructor's default of 5 is
\* replaced by the spread of the caller's options when the key is present.
\* supplied records whether the key was present.
playerOptions(arg) ==
  [vastUrl |-> arg.vastUrl,
   skipOffset |-> IF arg.skipOffset = Null THEN Some(Num(5))
                  ELSE Val(arg.skipOffset),
   supplied |-> arg.skipOffset /= Null]

\* the skip offsets a caller passes in the options
SuppliedOffsets == { Some(Num(n)) : n \in 0..MaxDur }

\* the fields of a player and of a rewarded ad after construction
InitPlayerFields ==
  /\ vastData = Null
  /\ vastXml = Null
  /\ reached = {}
  /\ videoElement = Null
  /\ skipButton = Null
  /\ currentTime = 0
  /\ trackingFired = {}
  /\ container = "empty"
  /\ inflight = 0
  /\ loads = 0
  /\ thrown = FALSE
  /\ orphaned = 0
  /\ overlay = "none"
  /\ rewardTimers = 0
  /\ popups = 0
  /\ log = <<>>

InitFields ==
  /\ \E u \in BOOLEAN :
       options = playerOptions([vastUrl |-> u,
                                skipOffset |-> IF mode = "rewarded"
                                                 THEN Some(Null) ELSE Null])
  /\ InitPlayerFields
  /\ interstitial = NewInterstitial(DefaultCloseAfter)
  /\ outstream = NewOutstream

\* a BuzzerVideoPlayer constructed by the caller
Init == mode = "standard" /\ InitFields

\* a BuzzerRewardedAd constructed by the caller
InitRewarded == mode = "rewarded" /\ InitFields

\* a BuzzerInterstitial constructed by the caller
InitInterstitial ==
  /\ mode = "interstitial"
  /\ options = playerOptions([vastUrl |-> FALSE, skipOffset |-> Null])
  /\ InitPlayerFields
  /\ \E n \in CloseAfterValues : interstitial = NewInterstitial(n)
  /\ outstream = NewOutstream

\* a BuzzerOutstream constructed by the caller
InitOutstream == mode = "outstream" /\ InitFields

\* a BuzzerVideoPlayer constructed with a VAST URL and a skip offset
InitOverride ==
  /\ mode = "standard"
  /\ \E v \in SuppliedOffsets :
       options = playerOptions([vastUrl |-> TRUE, skipOffset |-> Some(v)])
  /\ InitPlayerFields
  /\ interstitial = NewInterstitial(DefaultCloseAfter)
  /\ outstream = NewOutstream

\* the caller calls load() on a player it constructed; a session is one
\* load of one player
Load ==
  /\ mode = "standard"
  /\ loads = 0
  /\ SetWorld(load([World EXCEPT !.loads = @ + 1]))

\* the caller calls show() on a rewarded ad, once
Show ==
  /\ mode = "rewarded"
  /\ overlay = "none"
  /\ SetWorld(show([World EXCEPT !.loads = @ + 1]))

\* the caller calls load() again on the same player
Reload ==
  /\ mode = "standard"
  /\ loads >= 1
  /\ loads < MaxLoads
  /\ SetWorld(load([World EXCEPT !.loads = @ + 1]))

FetchResolve ==
  /\ inflight > 0
  /\ \E doc \in Documents : SetWorld(loadResumed(World, doc))

\* the fetch resolves with one of the documents that exercise the parser
FetchParsed ==
  /\ inflight > 0
  /\ \E doc \in ParseDocuments : SetWorld(loadResumed(World, doc))

FetchReject ==
  /\ inflight > 0
  /\ SetWorld(loadRejected(World))

\* the host learns the duration of the media; no listener is registered
LoadedMetadata ==
  /\ Playable(World)
  /\ Val(videoElement).duration = Null
  /\ SetWorld([World EXCEPT !.videoElement =
                 Some([Val(@) EXCEPT !.duration = Some(MaxDur)])])

\* host 'error' event of the element (the media cannot be fetched or
\* decoded): playback stops; render registers no listener for it
MediaError ==
  /\ Playable(World)
  /\ SetWorld([World EXCEPT !.videoElement =
                 Some([Val(@) EXCEPT !.error = TRUE])])

\* host 'play' event: play() by autoplay, by the page or by the user, at the
\* start or after a pause
Play ==
  /\ Playable(World)
  /\ SetWorld(onStart(World))

\* host 'timeupdate' event with the element at position t (playback or seek)
TimeUpdate ==
  /\ videoElement /= Null
  /\ ~Val(videoElement).error
  /\ \E t \in Positions(Val(videoElement)) :
       SetWorld(onTimeUpdate(Report(World, t, Val(videoElement).duration)))

\* 'timeupdate' of a video that is playing: the position moves on by one
\* second until the end of the media
Playback ==
  /\ Playable(World)
  /\ "start" \in trackingFired
  /\ Val(videoElement).duration /= Null
  /\ Val(videoElement).currentTime < Val(Val(videoElement).duration)
  /\ SetWorld(onTimeUpdate(Report(World, Val(videoElement).currentTime + 1,
                                  Val(videoElement).duration)))

\* 'timeupdate' with any position and any duration the element may report:
\* NaN while the duration is unknown, zero, or a positive number
AdvanceTime ==
  /\ Playable(World)
  /\ \E t \in 0..MaxDur, d \in {NaN} \cup { Num(n) : n \in 0..MaxDur } :
       SetWorld(onTimeUpdate(Report(World, t, d)))

\* host 'ended' event: the position has reached the end of the media
Ended ==
  /\ Playable(World)
  /\ Some(Val(videoElement).currentTime) = Val(videoElement).duration
  /\ ~Val(videoElement).ended
  /\ Repeats < MaxRepeat
  /\ SetWorld(onComplete([World EXCEPT !.videoElement =
                            Some([Val(@) EXCEPT !.ended = TRUE])]))

\* the user clicks the video element shown in the container
Click ==
  /\ Live(World)
  /\ container = "player"
  /\ Repeats < MaxRepeat
  /\ SetWorld(onClick(Emit(World, <<"event", "click">>)))

\* the user clicks the skip control: it is in the document and enabled
SkipButtonClick ==
  /\ skipButton /= Null
  /\ Val(skipButton).attached
  /\ ~Val(skipButton).disabled
  /\ SetWorld(skip(World))

\* the caller calls skip() on a player it constructed
SkipCall ==
  /\ mode = "standard"
  /\ Repeats < MaxRepeat
  /\ SetWorld(skip(World))

\* the caller calls destroy() on a player it constructed
Destroy ==
  /\ mode = "standard"
  /\ SetWorld(destroy(World))

\* the caller calls close() on a rewarded ad it has shown
CallerClose ==
  /\ mode = "rewarded"
  /\ overlay /= "none"
  /\ Calls("rewarded.onClose") < MaxRepeat
  /\ SetWorld(close(World))

RewardTimeout ==
  /\ rewardTimers > 0
  /\ SetWorld(rewardTimeout(World))

\* the caller calls show() on an interstitial, once
InterstitialShow ==
  /\ mode = "interstitial"
  /\ interstitial.views = <<>>
  /\ SetWorld(interstitialShow(World))

\* the caller calls show() again on the same interstitial
InterstitialShowAgain ==
  /\ mode = "interstitial"
  /\ interstitial.views /= <<>>
  /\ Len(interstitial.views) < MaxShows
  /\ SetWorld(interstitialShow(World))

\* one second has passed on an interval that was not cleared; an interval
\* that nothing clears is followed for MaxCloseAfter + 1 ticks
InterstitialTick ==
  \E i \in 1..Len(interstitial.views) :
    /\ interstitial.views[i].running
    /\ interstitial.views[i].ticks <= MaxCloseAfter
    /\ SetWorld(interstitialTick(World, i))

\* the user clicks the close button: it is displayed and in the document
InterstitialCloseClick ==
  /\ interstitial.closeButton /= Null
  /\ interstitial.views[Val(interstitial.closeButton)].closeVisible
  /\ interstitial.views[Val(interstitial.closeButton)].inDocument
  /\ SetWorld(interstitialClose(World))

\* the caller calls close() on an interstitial it has shown
InterstitialCallerClose ==
  /\ mode = "interstitial"
  /\ interstitial.views /= <<>>
  /\ Calls("interstitial.onClose") < MaxRepeat
  /\ SetWorld(interstitialClose(World))

\* the caller calls init() on an outstream ad, once
OutstreamInit ==
  /\ mode = "outstream"
  /\ ~outstream.observer
  /\ SetWorld([World EXCEPT !.outstream.observer = TRUE])

\* the observer calls back with one or two entries for the container
OutstreamObserve ==
  /\ outstream.observer
  /\ \E entries \in [1..1 -> BOOLEAN] \cup [1..2 -> BOOLEAN] :
       /\ Len(outstream.visibility) + Len(entries) <= MaxVisibility
       /\ SetWorld(outstreamObserve(World, entries))

Next ==
  \/ Load
  \/ FetchResolve
  \/ FetchReject
  \/ LoadedMetadata
  \/ MediaError
  \/ Play
  \/ TimeUpdate
  \/ Ended
  \/ Click
  \/ SkipButtonClick
  \/ SkipCall
  \/ Destroy

Spec == Init /\ [][Next]_vars

NextRewarded ==
  \/ Show
  \/ FetchResolve
  \/ FetchReject
  \/ LoadedMetadata
  \/ MediaError
  \/ Play
  \/ TimeUpdate
  \/ Ended
  \/ Click
  \/ SkipButtonClick
  \/ CallerClose
  \/ RewardTimeout

SpecRewarded == InitRewarded /\ [][NextRewarded]_vars

\* a player loaded more than once: the loads, their fetches and the
\* playback events between them
NextReload ==
  \/ Load
  \/ Reload
  \/ FetchResolve
  \/ FetchReject
  \/ LoadedMetadata
  \/ Play
  \/ TimeUpdate
  \/ Destroy

SpecReload == Init /\ [][NextReload]_vars

\* a player constructed with a skip offset of the caller: its load, the
\* positions the host reports and the clicks on the skip control
NextOverride ==
  \/ Load
  \/ FetchResolve
  \/ FetchReject
  \/ LoadedMetadata
  \/ Play
  \/ TimeUpdate
  \/ SkipButtonClick

SpecOverride == InitOverride /\ [][NextOverride]_vars

\* a player whose time updates report any position with any duration
NextAdvance ==
  \/ Load
  \/ FetchResolve
  \/ FetchReject
  \/ Play
  \/ AdvanceTime

SpecAdvance == Init /\ [][NextAdvance]_vars

\* a player loaded once with every document of the parser's inputs
NextParse ==
  \/ Load
  \/ FetchParsed
  \/ FetchReject

SpecParse == Init /\ [][NextParse]_vars

NextInterstitial ==
  \/ InterstitialShow
  \/ InterstitialTick
  \/ InterstitialCloseClick
  \/ InterstitialCallerClose

SpecInterstitial == InitInterstitial /\ [][NextInterstitial]_vars

\* A rewarded ad left to run: the caller shows it and does not close it, the
\* video plays forward, and the viewer may click the skip control.  The host
\* settles every fetch, delivers every media event and runs every timer, so
\* a step is taken as long as one is possible.
NextRewardedRun ==
  \/ Show
  \/ FetchResolve
  \/ FetchReject
  \/ LoadedMetadata
  \/ MediaError
  \/ Play
  \/ Playback
  \/ Ended
  \/ SkipButtonClick
  \/ RewardTimeout

SpecRewardedRun ==
  InitRewarded /\ [][NextRewardedRun]_vars /\ WF_vars(NextRewardedRun)

\* an interstitial shown more than once
NextReshow ==
  \/ InterstitialShow
  \/ InterstitialShowAgain
  \/ InterstitialTick
  \/ InterstitialCloseClick
  \/ InterstitialCallerClose

SpecReshow == InitInterstitial /\ [][NextReshow]_vars

\* an outstream ad as the page and the observer drive it; the viewer's clicks
\* are left to the standard player's specification
NextOutstream ==
  \/ OutstreamInit
  \/ OutstreamObserve
  \/ FetchResolve
  \/ FetchReject
  \/ LoadedMetadata
  \/ MediaError
  \/ Play
  \/ TimeUpdate
  \/ Ended

SpecOutstream == InitOutstream /\ [][NextOutstream]_vars

\* ================================================================== claims
\* the tracking events fired so far, in order
Fires(l) ==
  LET f == SelectSeq(l, LAMBDA e : e[1] = "fire")
  IN  [i \in 1..Len(f) |-> f[i][2]]

Loaded == vastData /= Null /\ Val(vastData).mediaFile

\* the descriptor allows skipping and the position has reached the offset
CanSkip ==
  /\ vastData /= Null
  /\ Val(vastData).skipOffset /= Null
  /\ Val(Val(vastData).skipOffset) /= NaN
  /\ currentTime >= Val(Val(Val(vastData).skipOffset))

\* C1: over every sequence of play and timeupdate events, each of start,
\* firstQuartile, midpoint and thirdQuartile is fired at most once.
C1_OnceKindsAtMostOnce == \A k \in OnceKinds : Fired(k) <= 1

\* all four have fired and the position has been moved back to the start
C1_Witness ==
  /\ trackingFired = OnceKinds
  /\ Live(World)
  /\ Val(videoElement).duration /= Null
  /\ currentTime = 0

\* C2: 'complete' is fired at most once in a session, however many times the
\* host delivers 'ended'.
C2_CompleteAtMostOnce == Fired("complete") <= 1

\* C3: on a skippable session whose position has reached the skip offset,
\* skip() invoked twice fires 'skip' once and calls the skip callback once.
C3_SkipTwiceFiresOnce ==
  CanSkip => (Fired("skip") <= 1 /\ Calls("onSkip") <= 1)

\* C4: on a loaded session, a call of skip() while the skip offset is null or
\* the position is before the offset changes nothing: no 'skip' event, no
\* skip callback, no destroy.
C4_SkipNoOpUnlessEligible ==
  [][((SkipCall \/ SkipButtonClick) /\ Loaded /\ ~CanSkip)
       => UNCHANGED vars]_vars

\* C5: on a session loaded with a descriptor whose skip offset is null, no
\* skip control is ever rendered and skip() never fires 'skip' nor its beacon.
C5_NullOffsetNeverSkips ==
  (Loaded /\ Val(vastData).skipOffset = Null)
     => (skipButton = Null /\ Fired("skip") = 0 /\ Pixels("skip") = 0)

\* the tracking events fired by the step
NewFires == Fires(SubSeq(log', Len(log) + 1, Len(log')))

\* C6: one time update fires every quartile whose threshold the new position
\* has reached and that had not fired, all in that update and in ascending
\* order; a jump from below 25% to 75% or more fires firstQuartile, midpoint,
\* thirdQuartile.
C6_QuartilesInOneUpdate ==
  [][TimeUpdate =>
       /\ NewFires = SelectSeq(QuartileOrder, LAMBDA k :
                        /\ k \notin trackingFired
                        /\ PercentAtLeast(currentTime',
                                          Val(videoElement').duration,
                                          Threshold(k)))
       /\ (/\ trackingFired \cap QuartileKinds = {}
           /\ PercentAtLeast(currentTime', Val(videoElement').duration, 75))
            => NewFires = QuartileOrder]_vars

\* the three quartiles are the first events fired, before any 'start', with
\* the position at 75% or more
C6_Witness ==
  /\ Len(Fires(log)) = 3
  /\ Fires(log) = QuartileOrder
  /\ Live(World)
  /\ PercentAtLeast(currentTime, Val(videoElement).duration, 75)

\* close() ran while neither a completion nor an error had happened
ClosedBeforeCompletion ==
  \E i \in 1..Len(log) :
    /\ log[i] = <<"call", "rewarded.onClose">>
    /\ \A j \in 1..(i - 1) : log[j] \notin {<<"fire", "complete">>,
                                           <<"call", "rewarded.onError">>}

\* C7: the reward callback of a rewarded ad shown once is invoked at most
\* once, only after a natural completion, and never when the ad was closed
\* before the video completed.
C7_RewardOnlyOnCompletion ==
  /\ Calls("rewarded.onReward") <= 1
  /\ Calls("rewarded.onReward") > 0 => Fired("complete") > 0
  /\ ClosedBeforeCompletion => Calls("rewarded.onReward") = 0

\* C8: the player of a rewarded ad has no skip control and never fires 'skip',
\* whatever the descriptor says.
C8_RewardedNeverSkippable ==
  mode = "rewarded" => (skipButton = Null /\ Fired("skip") = 0)

\* C9: on natural completion the teardown (overlay removed, onClose) comes
\* after the reward callback: every onClose that follows the confirmation
\* popup is preceded by the reward callback.
C9_RewardBeforeTeardown ==
  \A i \in 1..Len(log) :
    (/\ log[i] = <<"call", "rewarded.onClose">>
     /\ \E j \in 1..(i - 1) : log[j] = <<"ui", "rewardPopup">>)
      => \E k \in 1..(i - 1) : log[k] = <<"call", "rewarded.onReward">>

\* the load of the shown rewarded ad has ended in failure: the fetch rejected
\* or the document had no media file
LoadFailed ==
  /\ mode = "rewarded"
  /\ options.vastUrl
  /\ overlay /= "none"
  /\ inflight = 0
  /\ ~Loaded

\* C10: when the load of a rewarded ad fails the overlay is removed, the
\* error callback has been invoked exactly once and no reward is granted or
\* pending.
C10_LoadFailureClosesWithoutReward ==
  LoadFailed => /\ overlay = "removed"
                /\ Calls("rewarded.onError") = 1
                /\ Calls("rewarded.onReward") = 0
                /\ rewardTimers = 0

\* the document had no media file, and the caller has also called close()
C10_Witness ==
  /\ LoadFailed
  /\ vastData /= Null
  /\ Calls("rewarded.onClose") = 2

\* C11: when the host reports a media error during a rewarded ad, the error
\* callback has been invoked exactly once and no reward is granted.
C11_MediaErrorReported ==
  (mode = "rewarded" /\ videoElement /= Null /\ Val(videoElement).error)
     => (Calls("rewarded.onError") = 1 /\ Calls("rewarded.onReward") = 0)

\* C16: while a fetch started before a destroy() is still in flight, no step
\* (its resolution included) renders into the container, fires the impression
\* beacon or leaves a playable video element.
C16_ResolutionAfterDestroyDiscarded ==
  [][orphaned > 0
       => (/\ container' = "empty"
           /\ ~Live(World')
           /\ Pixels("impression")' = Pixels("impression"))]_vars

\* the once-per-session tracking events fired so far, in order
SessionFires(l) == SelectSeq(Fires(l), LAMBDA k : k /= "click")

\* C17: once a loaded session has fired 'complete' or 'skip', no later step
\* fires a further start, quartile, complete or skip event.
C17_TerminalFiresNothing ==
  [][(Loaded /\ (Fired("complete") > 0 \/ Fired("skip") > 0))
       => SessionFires(log') = SessionFires(log)]_vars

\* C18: every destroy() returns without an exception and fires nothing, leaves
\* the element released and the container empty, and a second destroy() right
\* after it changes nothing.
C18_DestroyIdempotent ==
  [][Destroy => /\ thrown' = thrown
                /\ log' = log
                /\ container' = "empty"
                /\ ~Live(World')
                /\ destroy(World') = World']_vars

\* destroyed after a completion (no skip() was called): the element that
\* played is released
C18_Witness ==
  /\ mode = "standard"
  /\ Fired("skip") = 0
  /\ Fired("complete") > 0
  /\ videoElement /= Null
  /\ ~Live(World)
  /\ container = "empty"

\* the one load of the standard player has ended in failure: the fetch
\* rejected or the document had no media file
PlayerLoadFailed ==
  /\ mode = "standard"
  /\ options.vastUrl
  /\ loads = 1
  /\ inflight = 0
  /\ ~Loaded

\* C19: when load() fails nothing is rendered (no video element, no skip
\* control, empty container), no impression beacon is fired and the error
\* callback has been invoked exactly once.
C19_FailedLoadRendersNothing ==
  PlayerLoadFailed => /\ videoElement = Null
                      /\ skipButton = Null
                      /\ container = "empty"
                      /\ Pixels("impression") = 0
                      /\ Calls("onError") = 1

\* the fetch resolved with a document that has trackers but no media file
C19_Witness ==
  /\ PlayerLoadFailed
  /\ vastData /= Null
  /\ DOMAIN Val(vastData).trackingEvents /= {}

\* C20: after a load failure no call other than destroy() fires a beacon or
\* a tracking event, invokes a callback or raises an exception.
C20_ErroredCallsAreNoOps ==
  [][(PlayerLoadFailed /\ ~Destroy) => (log' = log /\ thrown' = thrown)]_vars

\* C12: over any number of close() calls on a shown interstitial the overlay
\* is removed once and onClose is invoked at most once.
C12_InterstitialCloseOnce ==
  /\ Count(log, <<"ui", "interstitial.overlayRemoved">>) <= 1
  /\ Calls("interstitial.onClose") <= 1

\* C13: while the overlay is shown and its countdown is above zero, no step
\* removes the overlay or invokes onClose.
C13_CloseOnlyWhenDismissible ==
  [][(/\ interstitial.overlay /= Null
      /\ interstitial.views[Val(interstitial.overlay)].remaining > 0)
       => (/\ interstitial'.overlay /= Null
           /\ Calls("interstitial.onClose")' = Calls("interstitial.onClose"))]_vars

\* C14: for closeAfter = N >= 1, after k < N ticks the close control is
\* hidden and the countdown shows N - k; after the N-th tick the countdown
\* display is hidden, the close control is shown and the interval is stopped,
\* so there is never an (N+1)-th tick.
C14_CountdownThenCloseControl ==
  \A i \in 1..Len(interstitial.views) :
    LET v == interstitial.views[i]
        n == interstitial.closeAfter
    IN  n >= 1 =>
          /\ v.ticks <= n
          /\ v.ticks < n => /\ ~v.closeVisible
                            /\ v.displayVisible
                            /\ v.displayText = n - v.ticks
          /\ v.ticks = n => /\ v.closeVisible
                            /\ ~v.displayVisible
                            /\ ~v.running

\* the last of at least two ticks has run and the overlay is still shown
C14_Witness ==
  /\ interstitial.closeAfter >= 2
  /\ interstitial.views /= <<>>
  /\ interstitial.views[1].ticks = interstitial.closeAfter
  /\ interstitial.views[1].closeVisible
  /\ interstitial.views[1].inDocument

\* some entry delivered so far reported the container as intersecting
Intersected == \E i \in 1..Len(outstream.visibility) : outstream.visibility[i]

\* C15: over every sequence of visibility callbacks, load() has been called
\* and a player created exactly once if some entry was intersecting, and not
\* at all before that.
C15_OutstreamLoadsOnce ==
  mode = "outstream" =>
    /\ loads = (IF Intersected THEN 1 ELSE 0)
    /\ outstream.players = loads
    /\ outstream.hasPlayed = Intersected

\* visible, then out of view, then visible again
C15_Witness ==
  /\ mode = "outstream"
  /\ outstream.visibility = <<TRUE, FALSE, TRUE>>
  /\ loads = 1

\* C21: every click of the user on the video of a loaded player fires
\* 'click' once more, sends one more beacon to the click-tracking URL when
\* the descriptor has one, and leaves the once-only events fired and the
\* current position as they were.
C21_ClickFiresAndKeepsState ==
  [][(Loaded /\ Clicks' = Clicks + 1) =>
       /\ Fired("click")' = Fired("click") + 1
       /\ Val(vastData).clickTracking =>
            Pixels("clickTracking")' = Pixels("clickTracking") + 1
       /\ trackingFired' = trackingFired
       /\ currentTime' = currentTime]_vars

\* C22: the impression beacon is sent at most once for one player, over
\* every sequence of operations, repeated load() calls included.
C22_ImpressionAtMostOnce == Pixels("impression") <= 1

\* the quartile events fired so far, in the order they were fired
QuartilesFired == SelectSeq(Fires(log), LAMBDA k : k \in QuartileKinds)

\* C23: the quartile events of a session are fired in the order
\* firstQuartile, midpoint, thirdQuartile, whatever the position updates
\* (jumps and backward seeks included): thirdQuartile fired implies midpoint
\* fired implies firstQuartile fired, each before the next.
C23_QuartilesNeverReordered ==
  /\ Len(QuartilesFired) <= Len(QuartileOrder)
  /\ \A i \in 1..Len(QuartilesFired) : QuartilesFired[i] = QuartileOrder[i]
  /\ "thirdQuartile" \in trackingFired => "midpoint" \in trackingFired
  /\ "midpoint" \in trackingFired => "firstQuartile" \in trackingFired

\* firstQuartile and midpoint fired, the position sought back before the
\* first quartile, thirdQuartile still to come
C23_Witness ==
  /\ QuartilesFired = <<"firstQuartile", "midpoint">>
  /\ Playable(World)
  /\ Val(videoElement).duration /= Null
  /\ currentTime * 100 < 25 * Val(Val(videoElement).duration)

\* C24: when an outstream ad completes, its container is collapsed and not
\* destroyed: the container keeps the player's content, the video element
\* keeps its media (destroy() has not run) and nothing is left pending a
\* teardown.
C24_OutstreamCollapsesOnComplete ==
  [][(mode = "outstream" /\ Fired("complete")' > Fired("complete")) =>
       /\ outstream'.collapsed
       /\ container' = "player"
       /\ Live(World')
       /\ videoElement' =
            Some([Val(videoElement) EXCEPT !.ended = TRUE])]_vars

\* the ad has played to its end once and is collapsed with its player intact
C24_Witness ==
  /\ mode = "outstream"
  /\ Fired("complete") = 1
  /\ outstream.collapsed
  /\ container = "player"
  /\ Live(World)

\* C30: a load() on a player constructed without a VAST URL is reported to
\* the caller: the error callback has been invoked once.
C30_MissingUrlReported ==
  (mode = "standard" /\ ~options.vastUrl /\ loads > 0) => Calls("onError") = 1

\* --------------------------------------------------------- the VAST parser
\* the skipoffset attribute of the last document parsed
Attribute == Val(vastXml).skipoffset

\* the skip offset parsed from it
ParsedOffset == Val(vastData).skipOffset

AllDigits(s) == s /= <<>> /\ \A i \in 1..Len(s) : IsDigit(s[i])

\* s is "HH:MM:SS" with two digits in each field
IsTimestamp(s) ==
  /\ Len(s) = 8
  /\ s[3] = ":" /\ s[6] = ":"
  /\ \A i \in {1, 2, 4, 5, 7, 8} : IsDigit(s[i])

\* the value of the two digits of s from position i
Field(s, i) == DigitVal(s[i]) * 10 + DigitVal(s[i + 1])

\* three fields of digits separated by colons, of any width
IsNumericTriple(s) ==
  /\ Len(split(s, ":")) = 3
  /\ \A i \in 1..3 : AllDigits(split(s, ":")[i])

\* C25: a skipoffset attribute "HH:MM:SS" parses to H*3600 + M*60 + S.
C25_TimestampParsesToSeconds ==
  (vastXml /= Null /\ Attribute /= Null /\ IsTimestamp(Val(Attribute))) =>
    ParsedOffset =
      Some(Num(Field(Val(Attribute), 1) * 3600
                 + Field(Val(Attribute), 4) * 60
                 + Field(Val(Attribute), 7)))

\* "00:00:00" has been parsed to 0, not to the default
C25_Witness ==
  /\ vastXml /= Null
  /\ Attribute = Some(Timestamp(0, 0, 0))
  /\ ParsedOffset = Some(Num(0))

\* C26: a skipoffset attribute that is a bare non-negative integer string
\* parses to that integer, "0" included.
C26_BareIntegerParsesToItself ==
  (vastXml /= Null /\ Attribute /= Null /\ AllDigits(Val(Attribute))) =>
    ParsedOffset = Some(Num(Decimal(Val(Attribute))))

\* C27: a skipoffset attribute that is present but neither a numeric
\* timestamp nor a bare integer string parses to the default of 5.
C27_UnparseableDefaultsToFive ==
  (/\ vastXml /= Null
   /\ Attribute /= Null
   /\ ~IsNumericTriple(Val(Attribute))
   /\ ~AllDigits(Val(Attribute))) =>
    ParsedOffset = Some(Num(5))

\* the skip control is in the document
SkipControlRendered == skipButton /= Null /\ Val(skipButton).attached

\* C28: a document without skipoffset attribute parses to a null skip offset,
\* and a rendered player has a skip control exactly if the parsed skip
\* offset is not null.
C28_AbsentOffsetIsNull ==
  vastXml /= Null =>
    /\ Attribute = Null => ParsedOffset = Null
    /\ container = "player" => (SkipControlRendered <=> ParsedOffset /= Null)

\* no attribute: a null offset and a player rendered without skip control
C28_Witness ==
  /\ vastXml /= Null
  /\ Attribute = Null
  /\ ParsedOffset = Null
  /\ container = "player"
  /\ skipButton = Null

\* the Tracking elements of the last document parsed
Trackings == Val(vastXml).trackings

\* the position of the last Tracking element of kind k
LastOf(k) ==
  CHOOSE i \in 1..Len(Trackings) :
    /\ Trackings[i][1] = k
    /\ \A j \in (i + 1)..Len(Trackings) : Trackings[j][1] /= k

\* C29: trackingEvents has one entry per event kind of the document's
\* Tracking elements, holding the URL of the last element of that kind.
C29_TrackingLastWins ==
  vastXml /= Null =>
    LET te == Val(vastData).trackingEvents
    IN  /\ DOMAIN te = { Trackings[i][1] : i \in 1..Len(Trackings) }
        /\ \A k \in DOMAIN te : te[k] = Trackings[LastOf(k)][2]

\* two URLs for 'start' around one for 'complete': the second 'start' wins
C29_Witness ==
  /\ vastXml /= Null
  /\ Trackings = <<<<"start", "u1">>, <<"complete", "u1">>, <<"start", "u2">>>>
  /\ Val(vastData).trackingEvents["start"] = "u2"

\* C39: skip() on a player that has no descriptor yet (before load() or
\* while the fetch is pending) raises no exception, fires no beacon and
\* invokes no skip callback.
C39_SkipBeforeLoadIsSafe ==
  /\ ~thrown
  /\ vastData = Null => (Fired("skip") = 0 /\ Calls("onSkip") = 0)

\* C37: in the sequence of tracking events a session fires, 'start' comes
\* before every quartile event and before 'complete'.
C37_StartPrecedesProgress ==
  \A i \in 1..Len(Fires(log)) :
    Fires(log)[i] \in QuartileKinds \cup {"complete"} =>
      \E j \in 1..(i - 1) : Fires(log)[j] = "start"

\* the larger of two integers
Max(a, b) == IF a >= b THEN a ELSE b

\* C33: on a loaded skippable session the skip control is enabled and reads
\* "Skip Ad" exactly when currentTime >= skipOffset, and is otherwise
\* disabled and reads "Skip in Ns" with N = max(0, skipOffset - currentTime),
\* after every time update, backward seeks included.
C33_SkipControlFollowsPosition ==
  (/\ mode = "standard"
   /\ Loaded
   /\ Val(vastData).skipOffset /= Null
   /\ skipButton /= Null) =>
    LET offset == Val(Val(Val(vastData).skipOffset))
        sb == Val(skipButton)
    IN  IF currentTime >= offset
          THEN ~sb.disabled /\ sb.textContent = SkipAd
          ELSE /\ sb.disabled
               /\ sb.textContent = SkipIn(Max(0, offset - currentTime))

\* the position had reached the midpoint, which is not before the offset,
\* and was then taken back below the offset: the control is disabled again
C33_Witness ==
  /\ mode = "standard"
  /\ CanSkip = FALSE
  /\ "midpoint" \in trackingFired
  /\ skipButton /= Null
  /\ Val(skipButton).attached
  /\ Val(skipButton).disabled
  /\ Val(skipButton).textContent = SkipIn(1)

\* C31: a skip offset supplied in the options decides skippability and the
\* countdown of a rendered player, whatever the descriptor carries; the
\* descriptor's offset decides them only when the caller supplied none.
C31_OptionOverridesDescriptor ==
  (mode = "standard" /\ Loaded /\ container = "player") =>
    LET effective == IF options.supplied THEN options.skipOffset
                     ELSE Val(vastData).skipOffset
    IN  /\ SkipControlRendered <=> effective /= Null
        /\ (SkipControlRendered /\ Val(effective) /= NaN) =>
             (Val(skipButton).disabled <=> currentTime < Val(Val(effective)))

\* C32: a time update that reports a duration of zero or NaN fires no
\* quartile event, whatever position it reports.
C32_ZeroDurationFiresNothing ==
  [][(videoElement' /= Null
        /\ Val(videoElement').duration \in {NaN, Num(0)})
       => QuartilesFired' = QuartilesFired]_vars

\* C38: a quartile event has been fired only if some time update has
\* reported a position of at least its threshold (25, 50, 75 percent) of a
\* positive duration.
C38_QuartileOnlyWhenReached ==
  \A k \in QuartileKinds : Fired(k) > 0 => k \in reached

\* C35: when a rewarded ad was closed while its fetch was pending, the
\* resolution of that fetch leaves no playable video, opens no reward
\* popup and does not invoke onClose again.
C35_CloseCancelsPendingLoad ==
  [][(/\ mode = "rewarded"
      /\ overlay = "removed"
      /\ orphaned > 0
      /\ inflight' < inflight) =>
       /\ ~Live(World')
       /\ popups' = popups
       /\ Calls("rewarded.onClose")' = Calls("rewarded.onClose")]_vars

\* C36: when close() returns on an interstitial, no overlay created by the
\* instance is in the document and none of its countdown intervals is
\* running, whatever show() and close() calls came before.
C36_CloseLeavesNothingBehind ==
  [][Calls("interstitial.onClose")' > Calls("interstitial.onClose") =>
       \A i \in 1..Len(interstitial'.views) :
         /\ ~interstitial'.views[i].inDocument
         /\ ~interstitial'.views[i].running]_vars

\* C34: a rewarded ad that has been shown eventually has its overlay removed
\* and onClose invoked, however the session ends.
C34_ShownOverlayEventuallyClosed ==
  (overlay = "shown") ~>
    (overlay = "removed" /\ Calls("rewarded.onClose") > 0)

====
